---------------------------- MODULE Spec2Model ----------------------------
(***************************************************************************)
(* Model of mezzX/AIND-ASL-Recognizer:                                     *)
(*   my_recognizer.py       recognize                                      *)
(*   my_model_selectors.py  ModelSelector.base_model, SelectorConstant,    *)
(*                          SelectorBIC, SelectorDIC, SelectorCV           *)
(*                                                                         *)
(* hmmlearn's GaussianHMM is an external library.  A call of fit or score  *)
(* is an input of the model: it either raises or yields a log-likelihood.  *)
(* Log-likelihoods are integers; every float the code derives from them    *)
(* (a mean, a BIC value) is kept as an exact fraction <<num, den>>.        *)
(***************************************************************************)
EXTENDS Integers, Sequences, FiniteSets, TLC

VARIABLES
    strategy,       \* which entry point runs: "recognize" or a selector class
    pc,             \* position in the running function
    raised,         \* the exception that left the function, "" if none
    result,         \* select's return value
    \* ---- recognize ----
    models,         \* iteration order of the dict models (sequence of words)
    nitems,         \* number of test items
    i,              \* item index of the outer loop (1-based)
    k,              \* position of the inner loop in models
    p,              \* the item's dict word -> score
    best_word,
    best_score,     \* shared name: recognize and every selector
    score,          \* local, unbound until first assigned
    probabilities,
    guesses,
    outcomes,       \* history: <<item, word>> -> what model.score did
    \* ---- selectors ----
    this_word,
    env,            \* outcomes of fit/score fixed at construction (Constant, BIC)
    num,            \* candidate number of states
    model,          \* local, unbound until first assigned
    best_model,
    hist,           \* history: per candidate, the outcome the library gave
    \* ---- SelectorDIC ----
    tpos,           \* position of train in self.words.keys()
    logP1,
    words,
    branch,         \* which branch of lines 130-139 the last scan step took
    evals,          \* history: how often line 133 computed a score for num
    ref,            \* history: <<largest full-vocabulary DIC so far, the nums with it>>
    \* ---- SelectorCV ----
    nseq,           \* len(self.sequences)
    fold,           \* position in split_method.split(...)
    log_sum,
    length,
    calls           \* history: (train, test) index sets of the folds used for num

vars == <<strategy, pc, raised, result, models, nitems, i, k, p, best_word,
          best_score, score, probabilities, guesses, outcomes, this_word, env, num,
          model, best_model, hist, tpos, logP1, words, branch, evals, ref, nseq,
          fold, log_sum, length, calls>>

recVars == <<models, nitems, i, k, p, best_word, score, probabilities,
            guesses, outcomes>>
selVars == <<this_word, env, num, model, best_model, hist>>
dicVars == <<tpos, logP1, words, branch, evals, ref>>
cvVars  == <<nseq, fold, log_sum, length, calls>>

---------------------------------------------------------------------------
(* Bounds of the model *)
NumModels == 2          \* size of recognize's model table
MaxItems == 2           \* largest test set
MaxMag == 2             \* log-likelihoods range over -MaxMag .. -1
NumWords == 3           \* size of SelectorDIC's vocabulary
MaxStates == 4          \* max_n_components given to Constant, BIC and CV
MaxStatesDIC == 3       \* max_n_components given to SelectorDIC
MaxSeq == 4             \* most training instances of a word

(* Program constants *)
min_n_components == 2
n_constant == 3
MaxFolds == 3

WordNames == <<"A", "B", "C", "D", "E", "F">>
Words == {WordNames[j] : j \in 1..NumWords}
NoneWord == "None"
LogLVals == (0 - MaxMag)..(0 - 1)
\* The constructor's max_n_components (default 10): each selector is built
\* with a range small enough to enumerate.
max_n_components == IF strategy = "DIC" THEN MaxStatesDIC ELSE MaxStates
Candidates == min_n_components..max_n_components

---------------------------------------------------------------------------
(* Floats as exact fractions; a zero denominator is an infinity *)
Float(x) == <<x, 1>>
PosInf == <<1, 0>>
NegInf == <<0 - 1, 0>>
Unbound == <<>>

GtStrict(x, y) ==
    IF x[2] = 0 /\ y[2] = 0 THEN x[1] > y[1]
    ELSE IF x[2] = 0 THEN x[1] > 0
    ELSE IF y[2] = 0 THEN y[1] < 0
    ELSE x[1] * y[2] > y[1] * x[2]

GtOrEq(x, y) == ~GtStrict(y, x)

\* Python's x > y on floats
Gt(x, y) == GtStrict(x, y)
\* Python's x < y on floats
Lt(x, y) == GtStrict(y, x)

EmptyDict == [w \in {} |-> 0]
DictSet(d, key, v) == [w \in (DOMAIN d) \cup {key} |-> IF w = key THEN v ELSE d[w]]

Range(s) == {s[j] : j \in 1..Len(s)}
Reverse(s) == [j \in 1..Len(s) |-> s[Len(s) + 1 - j]]

---------------------------------------------------------------------------
(* A fitted model: the word whose features it was fitted on, its number of *)
(* states, and the held-out fold (0: fitted on all of the word's data).    *)
Model(w, n, f) == [word |-> w, n |-> n, fold |-> f]
None == [word |-> NoneWord, n |-> 0, fold |-> 0]

NoRec == /\ models = <<>> /\ nitems = 0 /\ i = 0 /\ k = 0 /\ p = EmptyDict
         /\ best_word = NoneWord /\ score = Unbound
         /\ probabilities = <<>> /\ guesses = <<>> /\ outcomes = EmptyDict
NoDIC == /\ tpos = 0 /\ logP1 = EmptyDict /\ words = <<>> /\ branch = "none"
         /\ evals = 0 /\ ref = <<NegInf, {}>>
NoCV  == /\ nseq = 0 /\ fold = 0 /\ log_sum = 0 /\ length = 0 /\ calls = <<>>
NoSel == /\ this_word = NoneWord /\ env = <<>> /\ num = 0 /\ model = Unbound
         /\ best_model = None /\ hist = <<>>

---------------------------------------------------------------------------
(* recognize                                                               *)

\* The dict models in insertion order, which need not be sorted order.
ModelOrders == {[j \in 1..NumModels |-> WordNames[j]],
                Reverse([j \in 1..NumModels |-> WordNames[j]])}

\* What model.score(current_X, current_lengths) does: "fail" or a value.
ScoreOutcomes == {<<"fail", 0>>} \cup {<<"ok", v>> : v \in LogLVals}

InitRec ==
    /\ strategy = "recognize"
    /\ pc = "item"
    /\ raised = ""
    /\ result = None
    /\ models \in ModelOrders
    /\ nitems \in 0..MaxItems
    /\ i = 1
    /\ k = 0
    /\ p = EmptyDict
    /\ best_word = NoneWord
    /\ best_score = NegInf
    /\ score = Unbound
    /\ probabilities = <<>>
    /\ guesses = [j \in 1..nitems |-> ""]
    /\ outcomes = EmptyDict
    /\ NoSel /\ NoDIC /\ NoCV

\* lines 25-30: the next item, or the return of line 48
RecItemStart ==
    /\ strategy = "recognize" /\ pc = "item"
    /\ IF i <= nitems
       THEN /\ best_word' = NoneWord
            /\ p' = EmptyDict
            /\ best_score' = NegInf
            /\ k' = 1
            /\ pc' = "scan"
       ELSE /\ pc' = "done"
            /\ UNCHANGED <<best_word, p, best_score, k>>
    /\ UNCHANGED <<strategy, raised, result, models, nitems, i, score,
                   probabilities, guesses, outcomes>>
    /\ UNCHANGED <<selVars, dicVars, cvVars>>

\* Defective variant of RecBetter: a later word of equal score replaces
\* the earlier one.
RecBetterOrEqual(s, b) == GtOrEq(s, b)

\* line 40: the comparison reads the local score, set or not
RecBetter(s, b) == Gt(s, b)

\* lines 32-42: one word of the scan
RecWord ==
    /\ strategy = "recognize" /\ pc = "scan" /\ k <= Len(models)
    /\ \E out \in ScoreOutcomes :
         LET word == models[k]
             s == IF out[1] = "ok" THEN Float(out[2]) ELSE score
         IN /\ outcomes' = DictSet(outcomes, <<i, word>>, out[1])
            /\ p' = DictSet(p, word, IF out[1] = "ok" THEN out[2] ELSE 0)
            /\ score' = s
            /\ IF s = Unbound
               THEN /\ raised' = "UnboundLocalError"
                    /\ pc' = "raised"
                    /\ UNCHANGED <<best_score, best_word, k>>
               ELSE /\ IF RecBetter(s, best_score)
                       THEN best_score' = s /\ best_word' = word
                       ELSE UNCHANGED <<best_score, best_word>>
                    /\ k' = k + 1
                    /\ UNCHANGED <<raised, pc>>
    /\ UNCHANGED <<strategy, result, models, nitems, i, probabilities, guesses>>
    /\ UNCHANGED <<selVars, dicVars, cvVars>>

\* lines 44-45
RecItemEnd ==
    /\ strategy = "recognize" /\ pc = "scan" /\ k > Len(models)
    /\ probabilities' = Append(probabilities, p)
    /\ guesses' = [guesses EXCEPT ![i] = best_word]
    /\ i' = i + 1
    /\ pc' = "item"
    /\ UNCHANGED <<strategy, raised, result, models, nitems, k, p, best_word,
                   best_score, score, outcomes>>
    /\ UNCHANGED <<selVars, dicVars, cvVars>>

NextRec == RecItemStart \/ RecWord \/ RecItemEnd

SpecRec == InitRec /\ [][NextRec]_vars

---------------------------------------------------------------------------
(* ModelSelector.base_model, SelectorConstant, SelectorBIC                 *)

\* What fitting and scoring one candidate on the word's own data does.
FitOutcomes == {"ok", "fitfail", "scorefail"}

\* base_model: the fitted model, or None when fit raised anything
base_model(w, num_states, fit_ok) ==
    IF fit_ok THEN Model(w, num_states, 0) ELSE None

\* The environment of SelectorConstant and SelectorBIC: per number of
\* states the outcome and log-likelihood, len(self.X) and len(self.X[0]).
LenXVals == {1, 3, 8}
DimVals == {1, 2}
Envs(cands) ==
    {e \in [out : [cands -> FitOutcomes], logL : [cands -> LogLVals],
            N : LenXVals, d : DimVals] :
        \A n \in cands : e.out[n] # "ok" => e.logL[n] = 0 - 1}

InitSelCommon ==
    /\ pc = "loop"
    /\ raised = ""
    /\ result = None
    /\ best_model = None
    /\ model = Unbound
    /\ hist = EmptyDict
    /\ NoRec

InitConstant ==
    /\ strategy = "Constant"
    /\ InitSelCommon
    /\ this_word = WordNames[1]
    /\ env \in {e \in Envs({n_constant}) :
                   e.N = 1 /\ e.d = 1 /\ e.out[n_constant] # "scorefail"}
    /\ num = n_constant
    /\ best_score = NegInf
    /\ NoDIC /\ NoCV

\* SelectorConstant.select, lines 60-61
ConstantSelect ==
    /\ strategy = "Constant" /\ pc = "loop"
    /\ result' = base_model(this_word, n_constant, env.out[n_constant] # "fitfail")
    /\ hist' = DictSet(hist, n_constant, <<env.out[n_constant], NegInf>>)
    /\ pc' = "done"
    /\ UNCHANGED <<strategy, raised, best_score, this_word, env, num, model,
                   best_model>>
    /\ UNCHANGED <<recVars, dicVars, cvVars>>

InitBIC ==
    /\ strategy = "BIC"
    /\ InitSelCommon
    /\ this_word = WordNames[1]
    /\ env \in Envs(min_n_components..MaxStates)
    /\ num = min_n_components
    /\ best_score = PosInf
    /\ NoDIC /\ NoCV

\* np.log(len(self.X)) in thousandths, rounded down
LnMilli(n) ==
    CASE n = 1 -> 0    [] n = 2 -> 693  [] n = 3 -> 1098 [] n = 4 -> 1386
      [] n = 5 -> 1609 [] n = 6 -> 1791 [] n = 7 -> 1945 [] n = 8 -> 2079

\* line 87
BICParams(n, d) == n * (n - 1) + 2 * d * n

\* line 88, in thousandths
BICScore(logL, n, d, N) ==
    <<(0 - 2) * logL * 1000 + BICParams(n, d) * LnMilli(N), 1000>>

\* line 89
BICBetter(s, b) == Lt(s, b)

\* lines 84-91 for one num; any exception ends the loop at line 94-95
BICCandidate ==
    /\ strategy = "BIC" /\ pc = "loop" /\ num <= max_n_components
    /\ LET m == base_model(this_word, num, env.out[num] # "fitfail")
           s == BICScore(env.logL[num], num, env.d, env.N)
       IN /\ model' = m
          /\ hist' = DictSet(hist, num, <<env.out[num], NegInf>>)
          /\ IF m = None \/ env.out[num] = "scorefail"
             THEN \* AttributeError on None.score, or score raised: line 95
                  /\ result' = best_model
                  /\ pc' = "done"
                  /\ UNCHANGED <<best_score, best_model, num>>
             ELSE /\ IF BICBetter(s, best_score)
                     THEN best_score' = s /\ best_model' = m
                     ELSE UNCHANGED <<best_score, best_model>>
                  /\ num' = num + 1
                  /\ UNCHANGED <<result, pc>>
    /\ UNCHANGED <<strategy, raised, this_word, env>>
    /\ UNCHANGED <<recVars, dicVars, cvVars>>

\* line 92
BICReturn ==
    /\ strategy = "BIC" /\ pc = "loop" /\ num > max_n_components
    /\ result' = best_model
    /\ pc' = "done"
    /\ UNCHANGED <<strategy, raised, best_score, this_word, env, num, model,
                   best_model, hist>>
    /\ UNCHANGED <<recVars, dicVars, cvVars>>

NextBIC == BICCandidate \/ BICReturn

SpecBIC == InitBIC /\ [][NextBIC]_vars

---------------------------------------------------------------------------
(* SelectorCV                                                              *)

\* line 155
kfold_n == IF nseq < MaxFolds THEN nseq ELSE MaxFolds

\* KFold(k).split over n samples, no shuffling: the first n % k folds hold
\* n \div k + 1 samples, the others n \div k; fold f starts after f - 1 folds.
FoldSize(n, kf, f) == (n \div kf) + (IF f <= n % kf THEN 1 ELSE 0)
FoldStart(n, kf, f) ==
    (f - 1) * (n \div kf) + (IF f - 1 <= n % kf THEN f - 1 ELSE n % kf)
cv_test(n, kf, f) == (FoldStart(n, kf, f) + 1)..(FoldStart(n, kf, f) + FoldSize(n, kf, f))
cv_train(n, kf, f) == (1..n) \ cv_test(n, kf, f)

\* What fit on the held-in and score on the held-out instances do.
FoldOutcomes == {<<"fitfail", 0>>, <<"scorefail", 0>>} \cup {<<"ok", v>> : v \in LogLVals}

InitCV ==
    /\ strategy = "CV"
    /\ InitSelCommon
    /\ this_word = WordNames[1]
    /\ env = <<>>
    /\ num = min_n_components
    /\ best_score = NegInf
    /\ nseq \in 1..MaxSeq
    /\ fold = 1
    /\ log_sum = 0
    /\ length = 0
    /\ calls = <<>>
    /\ NoDIC

\* Defective variant of CVBetter: the mean is minimised, as the BIC is.
CVBetterLower(s, b) == Lt(s, b)

\* lines 162 and 186
CVBetter(s, b) == Gt(s, b)

\* lines 158-167: the single-instance branch, one num
CVSingle ==
    /\ strategy = "CV" /\ pc = "loop" /\ kfold_n = 1 /\ num <= max_n_components
    /\ \E out \in FoldOutcomes :
         LET m == base_model(this_word, num, out[1] # "fitfail")
         IN /\ model' = m
            /\ hist' = DictSet(hist, num, <<out[1], Float(out[2])>>)
            /\ IF out[1] = "ok" /\ CVBetter(Float(out[2]), best_score)
               THEN best_score' = Float(out[2]) /\ best_model' = m
               ELSE UNCHANGED <<best_score, best_model>>
    /\ num' = num + 1
    /\ UNCHANGED <<strategy, pc, raised, result, this_word, env>>
    /\ UNCHANGED <<recVars, dicVars, cvVars>>

\* lines 175-183: one fold of one num; a failure leaves the try at line 190
CVFold ==
    /\ strategy = "CV" /\ pc = "loop" /\ kfold_n > 1 /\ num <= max_n_components
    /\ fold <= kfold_n
    /\ \E out \in FoldOutcomes :
         /\ model' = IF out[1] = "fitfail" THEN model ELSE Model(this_word, num, fold)
         /\ IF out[1] = "ok"
            THEN /\ log_sum' = log_sum + out[2]
                 /\ length' = length + 1
                 /\ fold' = fold + 1
                 /\ calls' = Append(calls, <<cv_train(nseq, kfold_n, fold),
                                             cv_test(nseq, kfold_n, fold), out[2]>>)
                 /\ UNCHANGED <<num, hist>>
            ELSE /\ hist' = DictSet(hist, num, <<out[1], NegInf>>)
                 /\ num' = num + 1
                 /\ log_sum' = 0
                 /\ length' = 0
                 /\ fold' = 1
                 /\ calls' = <<>>
    /\ UNCHANGED <<strategy, pc, raised, result, best_score, this_word, env,
                   best_model, nseq>>
    /\ UNCHANGED <<recVars, dicVars>>

\* line 185
CVMean(sum, len) == <<sum, len>>

\* lines 185-188, then lines 173-174 of the next num
CVAverage ==
    /\ strategy = "CV" /\ pc = "loop" /\ kfold_n > 1 /\ num <= max_n_components
    /\ fold > kfold_n
    /\ LET avg_score == CVMean(log_sum, length)
       IN /\ hist' = DictSet(hist, num, <<"ok", avg_score>>)
          /\ IF CVBetter(avg_score, best_score)
             THEN best_score' = avg_score /\ best_model' = model
             ELSE UNCHANGED <<best_score, best_model>>
    /\ num' = num + 1
    /\ log_sum' = 0
    /\ length' = 0
    /\ fold' = 1
    /\ calls' = <<>>
    /\ UNCHANGED <<strategy, pc, raised, result, this_word, env, model, nseq>>
    /\ UNCHANGED <<recVars, dicVars>>

\* line 193
CVReturn ==
    /\ strategy = "CV" /\ pc = "loop" /\ num > max_n_components
    /\ result' = best_model
    /\ pc' = "done"
    /\ UNCHANGED <<strategy, raised, best_score, this_word, env, num, model,
                   best_model, hist>>
    /\ UNCHANGED <<recVars, dicVars, cvVars>>

NextCV == CVSingle \/ CVFold \/ CVAverage \/ CVReturn

SpecCV == InitCV /\ [][NextCV]_vars

---------------------------------------------------------------------------
(* SelectorDIC                                                             *)

\* self.words.keys() in iteration order: a word is named by its position.
Vocabulary == [j \in 1..NumWords |-> WordNames[j]]

\* What lines 121-124 do for one train word: fit raises ValueError, fit
\* succeeds and score raises ValueError, either raises something that is
\* not a ValueError, or both succeed with a log-likelihood.
DICOutcomes == {<<"fitfail", 0>>, <<"scorefail", 0>>, <<"error", 0>>}
                   \cup {<<"ok", v>> : v \in LogLVals}

InitDIC ==
    /\ strategy = "DIC"
    /\ InitSelCommon
    /\ this_word \in Words
    /\ env = <<>>
    /\ num = min_n_components
    /\ best_score = NegInf
    /\ tpos = 1
    /\ logP1 = EmptyDict
    /\ words = <<>>
    /\ branch = "none"
    /\ evals = 0
    /\ ref = <<NegInf, {}>>
    /\ NoCV

RECURSIVE SumOthers(_, _, _)
\* line 132: sum of logP1 over the words of ws other than w
SumOthers(lp, ws, w) ==
    IF ws = <<>> THEN 0
    ELSE (IF ws[1] # w THEN lp[ws[1]] ELSE 0) + SumOthers(lp, Tail(ws), w)

\* line 133: logP1[this_word] - (1/(len(words)-1)) * logP2
DICScore(lp, ws, w) ==
    <<lp[w] * (Len(ws) - 1) - SumOthers(lp, ws, w), Len(ws) - 1>>

\* Defective variant of DICEnough: the contrast is attempted as soon as one
\* word has fitted.
DICEnoughOne(ws) == Len(ws) > 0

\* line 131
DICEnough(ws) == Len(ws) > 1

\* line 134
DICBetter(s, b) == Gt(s, b)

\* The DIC of the spec for a finished scan: the target's log-likelihood
\* minus the mean over every other word that fitted, if there is one.
FullDIC(lp, w) ==
    LET others == (DOMAIN lp) \ {w}
        RECURSIVE Sum(_)
        Sum(S) == IF S = {} THEN 0
                  ELSE LET x == CHOOSE x \in S : TRUE IN lp[x] + Sum(S \ {x})
    IN IF w \in DOMAIN lp /\ others # {}
       THEN <<lp[w] * Cardinality(others) - Sum(others), Cardinality(others)>>
       ELSE NegInf

\* lines 118-139: one train word of the scan for num
DICWord ==
    /\ strategy = "DIC" /\ pc = "loop" /\ tpos <= Len(Vocabulary)
    /\ \E out \in DICOutcomes :
         LET train == Vocabulary[tpos]
             m == IF out[1] \in {"ok", "scorefail"} THEN Model(train, num, 0) ELSE model
             lp == IF out[1] = "ok" THEN DictSet(logP1, train, out[2]) ELSE logP1
             ws == IF out[1] = "ok" THEN Append(words, train) ELSE words
         IN /\ hist' = IF train = this_word
                       THEN DictSet(hist, num, <<out[1], NegInf>>)
                       ELSE hist
            /\ IF out[1] = "error"
               THEN /\ raised' = "Exception"
                    /\ pc' = "raised"
                    /\ UNCHANGED <<model, logP1, words, best_score, best_model,
                                   branch, evals, tpos>>
               ELSE /\ model' = m
                    /\ logP1' = lp
                    /\ words' = ws
                    /\ tpos' = tpos + 1
                    /\ UNCHANGED <<raised, pc>>
                    /\ IF ~DICEnough(ws)
                       THEN /\ branch' = "skip"
                            /\ UNCHANGED <<best_score, best_model, evals>>
                       ELSE IF this_word \notin DOMAIN lp
                       THEN \* KeyError at line 133, caught at line 138
                            /\ branch' = "fallback"
                            /\ best_model' = m
                            /\ UNCHANGED <<best_score, evals>>
                       ELSE /\ branch' = "compare"
                            /\ evals' = evals + 1
                            /\ IF DICBetter(DICScore(lp, ws, this_word), best_score)
                               THEN /\ best_score' = DICScore(lp, ws, this_word)
                                    /\ best_model' = m
                               ELSE UNCHANGED <<best_score, best_model>>
    /\ UNCHANGED <<strategy, result, this_word, env, num, ref>>
    /\ UNCHANGED <<recVars, cvVars>>

\* lines 115-117: the scan of num is over, the next num starts
DICNextNum ==
    /\ strategy = "DIC" /\ pc = "loop" /\ tpos > Len(Vocabulary)
    /\ num <= max_n_components
    /\ LET full == FullDIC(logP1, this_word)
       IN ref' = IF full = NegInf THEN ref
                 ELSE IF GtStrict(full, ref[1]) THEN <<full, {num}>>
                 ELSE IF GtStrict(ref[1], full) THEN ref
                 ELSE <<ref[1], ref[2] \cup {num}>>
    /\ num' = num + 1
    /\ IF num + 1 <= max_n_components
       THEN /\ logP1' = EmptyDict
            /\ words' = <<>>
            /\ tpos' = 1
            /\ evals' = 0
            /\ branch' = "none"
       ELSE UNCHANGED <<logP1, words, tpos, evals, branch>>
    /\ UNCHANGED <<strategy, pc, raised, result, best_score, this_word, env,
                   model, best_model, hist>>
    /\ UNCHANGED <<recVars, cvVars>>

\* line 141
DICReturn ==
    /\ strategy = "DIC" /\ pc = "loop" /\ num > max_n_components
    /\ result' = best_model
    /\ pc' = "done"
    /\ UNCHANGED <<strategy, raised, best_score, this_word, env, num, model,
                   best_model, hist>>
    /\ UNCHANGED <<recVars, dicVars, cvVars>>

NextDIC == DICWord \/ DICNextNum \/ DICReturn

SpecDIC == InitDIC /\ [][NextDIC]_vars

---------------------------------------------------------------------------
(* The four selectors side by side *)

InitSel == InitConstant \/ InitBIC \/ InitDIC \/ InitCV

NextSel == ConstantSelect \/ NextBIC \/ NextDIC \/ NextCV

SpecSel == InitSel /\ [][NextSel]_vars

---------------------------------------------------------------------------
(* Claims about recognize *)

SortedPos(w) == CHOOSE j \in 1..Len(WordNames) : WordNames[j] = w
IterPos(w) == CHOOSE j \in 1..Len(models) : models[j] = w
IsMax(d, w) == w \in DOMAIN d /\ \A u \in DOMAIN d : d[w] >= d[u]
Failed(j) == {w \in Range(models) : outcomes[<<j, w>>] = "fail"}

\* C1: for every finished item, guesses[i] is a key of probabilities[i] whose
\* recorded value is the maximum of probabilities[i]; when exactly one model
\* failed on the item (recorded 0) and every other score is negative, the
\* guess is the failing model's word.
C1_GuessIsArgmax ==
    \A j \in 1..Len(probabilities) :
        /\ guesses[j] \in DOMAIN probabilities[j]
        /\ IsMax(probabilities[j], guesses[j])
        /\ (/\ Cardinality(Failed(j)) = 1
            /\ \A w \in Range(models) \ Failed(j) : probabilities[j][w] < 0)
           => guesses[j] \in Failed(j)

\* C2: for any pattern of scoring failures recognize returns without raising,
\* with len(probabilities) = len(guesses) = number of items, item j's results
\* at index j, and each probabilities[j] holding exactly the model table's
\* keys: 0 where the model failed on item j, a log-likelihood elsewhere.
C2_ReturnsNormally ==
    /\ raised = ""
    /\ pc = "done" =>
         /\ Len(probabilities) = nitems
         /\ Len(guesses) = nitems
         /\ \A j \in 1..nitems :
              /\ DOMAIN probabilities[j] = Range(models)
              /\ \A w \in Range(models) :
                   IF outcomes[<<j, w>>] = "fail"
                   THEN probabilities[j][w] = 0
                   ELSE probabilities[j][w] \in LogLVals

\* C3: when every model scored an item and two or more words share the
\* maximal score, the guess is the tied word that comes first in the
\* iteration order of the model table.
C3_FirstSeenWins ==
    \A j \in 1..Len(probabilities) :
        Failed(j) = {} =>
            /\ IsMax(probabilities[j], guesses[j])
            /\ \A w \in Range(models) :
                 IsMax(probabilities[j], w) => IterPos(guesses[j]) <= IterPos(w)

\* A finished item, all models scored, with a tie at the maximum whose winner
\* is neither the tied word first in sorted order nor the one scanned last.
C3_Witness ==
    \E j \in 1..Len(probabilities) :
        /\ Failed(j) = {}
        /\ \E w \in Range(models) :
             /\ w # guesses[j]
             /\ IsMax(probabilities[j], w)
             /\ IsMax(probabilities[j], guesses[j])
             /\ SortedPos(w) < SortedPos(guesses[j])
             /\ IterPos(w) > IterPos(guesses[j])

---------------------------------------------------------------------------
(* Claims about SelectorBIC *)

BICOk == {n \in Candidates : env.out[n] = "ok"}
BICOf(n) == BICScore(env.logL[n], n, env.d, env.N)

\* C4: whatever the pattern of fit and score failures, SelectorBIC.select
\* tries every state count of the range (a failure at one does not stop the
\* later ones) and returns a successfully fit-and-scored candidate whose
\* BIC is <= the BIC of every other successfully scored candidate.
C4_BICIndependentTrials ==
    (strategy = "BIC" /\ pc = "done") =>
        /\ DOMAIN hist = Candidates
        /\ BICOk # {} =>
             /\ result.n \in BICOk
             /\ \A m \in BICOk : GtOrEq(BICOf(m), BICOf(result.n))

---------------------------------------------------------------------------
(* Claims about SelectorCV *)

RECURSIVE SumScores(_)
SumScores(cs) == IF cs = <<>> THEN 0 ELSE cs[1][3] + SumScores(Tail(cs))

IsInterval(S) == \A a \in S, b \in S, c \in 1..nseq : (a < c /\ c < b) => c \in S
CVOk == {n \in DOMAIN hist : hist[n][1] = "ok"}
ExpectedFolds == IF nseq >= 3 THEN 3 ELSE nseq

\* The folds used so far for the current num are the first ones of a
\* contiguous, in-order partition of the instances into near-equal parts.
FoldsContiguous ==
    /\ Len(calls) <= ExpectedFolds
    /\ \A f \in 1..Len(calls) :
         /\ calls[f][2] # {} /\ IsInterval(calls[f][2])
         /\ calls[f][1] = (1..nseq) \ calls[f][2]
         /\ \A g \in 1..Len(calls) :
              /\ f < g => \A a \in calls[f][2], b \in calls[g][2] : a < b
              /\ Cardinality(calls[f][2]) - Cardinality(calls[g][2]) \in {0 - 1, 0, 1}
    /\ Len(calls) = ExpectedFolds =>
         UNION {calls[f][2] : f \in 1..Len(calls)} = 1..nseq

\* C6: on a word with at least 2 instances, each candidate is fit and scored
\* on exactly min(3, instance_count) contiguous unshuffled folds, its quality
\* is the arithmetic mean of the fold scores, a candidate with a failing fold
\* contributes no score and is never the best, and the returned model has the
\* state count of maximum mean among the candidates whose folds all succeeded.
C6_CVFoldsAndMean ==
    (strategy = "CV" /\ nseq >= 2) =>
        /\ FoldsContiguous
        /\ (pc = "loop" /\ num <= max_n_components) =>
             /\ length = Len(calls) /\ log_sum = SumScores(calls)
             /\ fold = Len(calls) + 1
        /\ \A n \in CVOk : hist[n][2][2] = ExpectedFolds
        /\ best_model # None =>
             /\ best_model.n \in CVOk
             /\ best_score = hist[best_model.n][2]
        /\ \A n \in CVOk : GtOrEq(best_score, hist[n][2])
        /\ pc = "done" =>
             /\ result = best_model
             /\ CVOk # {} => result # None

\* select returned the model of a candidate that is not the first of the
\* range, after an earlier candidate lost a fold and another scored lower.
C6_Witness ==
    /\ strategy = "CV" /\ nseq >= 4 /\ pc = "done"
    /\ result # None
    /\ result.n > min_n_components
    /\ \E n \in DOMAIN hist : hist[n][1] # "ok"
    /\ \E n \in CVOk : GtStrict(hist[result.n][2], hist[n][2])

---------------------------------------------------------------------------
(* Claims about SelectorDIC *)

ScanFinished == pc = "loop" /\ tpos > Len(Vocabulary)

\* C5: each state count n is scored exactly once, as
\* DIC(n) = logL(target) - mean of logL(w) over all the other words that
\* fitted at n (the complete set, whatever the iteration order), and the
\* candidate accepted as best is the one of maximum DIC(n) over the range.
C5_DICScoredOnceOverAll ==
    strategy = "DIC" =>
        /\ evals <= 1
        /\ (ScanFinished /\ FullDIC(logP1, this_word) # NegInf) => evals = 1
        /\ (pc = "done" /\ ref[2] # {}) =>
             /\ best_score = ref[1]
             /\ result.n \in ref[2]

\* C9 as claimed: the fallback of line 139 is taken exactly when fewer than
\* 2 words have fitted at the current state count.
C9_FallbackIffFewerThanTwo ==
    (strategy = "DIC" /\ branch # "none") =>
        (branch = "fallback" <=> Len(words) < 2)

\* C9 as amended: a scan step takes the fallback of line 139, which makes the
\* model fitted last the best without a comparison, exactly when 2 or more
\* words have fitted so far at the current state count and the target word is
\* not among them; with fewer than 2 fitted words the step neither compares
\* nor falls back.
C9_FallbackIffTargetMissing ==
    (strategy = "DIC" /\ branch # "none") =>
        /\ branch = "fallback" <=> (Len(words) >= 2 /\ this_word \notin Range(words))
        /\ branch = "compare" <=> (Len(words) >= 2 /\ this_word \in Range(words))
        /\ branch = "skip" <=> Len(words) < 2
        /\ branch = "fallback" => best_model = model

\* A fallback step after the target word's own fit failed at this state count
\* while two other words fitted.
C9_Witness ==
    /\ strategy = "DIC" /\ branch = "fallback"
    /\ num \in DOMAIN hist /\ hist[num][1] = "fitfail"
    /\ Len(words) = 2
    /\ best_model = model

\* C10: a model returned by SelectorDIC.select was fitted on the target
\* word's own features, whatever the iteration order and the fit failures.
C10_DICReturnsTargetModel ==
    (strategy = "DIC" /\ pc = "done" /\ result # None) => result.word = this_word

---------------------------------------------------------------------------
(* Claims about all selectors *)

\* The outcome of fitting and scoring candidate n on the target word.
Tried == IF strategy \in {"BIC", "Constant"} THEN DOMAIN env.out ELSE DOMAIN hist
Outcome(n) == IF strategy \in {"BIC", "Constant"} THEN env.out[n] ELSE hist[n][1]

\* C7: for SelectorBIC and SelectorCV, if fitting fails for every state count
\* above a threshold t while at least one state count <= t fits and scores,
\* select raises nothing and returns a model with at most t states that is
\* one of the viable candidates.
C7_SkipsFailingCandidates ==
    (strategy \in {"BIC", "CV"} /\ pc \in {"done", "raised"}) =>
        \A t \in Candidates \ {max_n_components} :
            (/\ \A n \in Candidates : n > t => Outcome(n) = "fitfail"
             /\ \E n \in Candidates : n <= t /\ Outcome(n) = "ok")
            => /\ raised = ""
               /\ result # None
               /\ result.n <= t
               /\ Outcome(result.n) = "ok"

\* C8: for each of Constant, BIC, DIC and CV, if every candidate of the word
\* fails to fit or score, whatever the failure, select returns None and does
\* not raise.
C8_NoViableModelIsNone ==
    (strategy \in {"Constant", "BIC", "DIC", "CV"}
        /\ \A n \in Tried : Outcome(n) # "ok")
    => /\ pc # "raised"
       /\ pc = "done" => result = None

=============================================================================
